---- MODULE Spec2Model ----
(***************************************************************************)
(* Strategy simulation and contingency-ranking engine of f1_strategy_lab:  *)
(* generate_candidate_strategies, evaluate_strategies,                     *)
(* evaluate_strategies_with_contingencies, ContingencyRanker.rank and the  *)
(* per-event selection of run_season_pipeline.                             *)
(*                                                                         *)
(* Numbers: Python floats are modelled in fixed point, one unit = 1/1000   *)
(* (milliseconds, thousandths of a point, per-mille probabilities), with   *)
(* floor division where the code divides.  Strings are TLA+ strings, built *)
(* with \o and ToString exactly as the f-strings and join() build them.    *)
(* numpy's generator is modelled as a small linear congruential generator: *)
(* a state, seeded by default_rng(seed), advanced by every draw.           *)
(***************************************************************************)
EXTENDS Integers, Sequences, FiniteSets, TLC

VARIABLES
    pc,                 \* position of the caller: which call comes next
    total_laps,         \* argument total_laps
    compounds,          \* argument compounds of generate_candidate_strategies
    env,                \* base_lap_time, degradation, fuel/traffic/rain inputs
    cfg,                \* the caller's SimulationConfig
    random_state,       \* argument random_state
    rng,                \* numpy generator state of the latest evaluate_strategies call
    candidates,         \* list[StrategyCandidate]
    eval_table,         \* result of a direct evaluate_strategies call
    eval_table_2,       \* result of the repeated evaluate_strategies call
    eval_calls,         \* arguments of the evaluator call of each scenario
    tables,             \* local `tables` of evaluate_strategies_with_contingencies
    merged,             \* local `merged` with top3_scenario_hits, before the final sort
    ranked_idx,         \* local `ranked_idx` of each scenario of the top-3 loop
    contingency_table,  \* result of evaluate_strategies_with_contingencies
    ranked,             \* ContingencyRankResult.ranked
    metrics,            \* ContingencyRankResult.metrics
    no_model,           \* TRUE when rank took the else branch (no model fitted)
    rec,                \* the recommendation record of the event
    err,                \* the exception that ended the run, "" when none
    trial,              \* locals and result of a direct call of one helper
    race,               \* position and locals of an evaluate_strategies call in progress
    outputs             \* the report files run_season_pipeline has written

vars == <<pc, total_laps, compounds, env, cfg, random_state, rng, candidates,
          eval_table, eval_table_2, eval_calls, tables, merged, ranked_idx,
          contingency_table, ranked, metrics, no_model, rec, err, trial, race,
          outputs>>

inputVars == <<total_laps, compounds, env, cfg, random_state>>
evalVars == <<eval_table, eval_table_2>>
unitVars == <<trial, race, outputs>>
contVars == <<eval_calls, tables, merged, ranked_idx, contingency_table>>
rankVars == <<ranked, metrics, no_model>>

(***************************************************************************)
(* Bounds of the model.                                                    *)
(***************************************************************************)
MaxLaps == 5
MaxCompounds == 3
MaxSims == 2
MaxSeed == 1
MaxTake == 2
MaxFit == 1
MaxTrials == 450

(***************************************************************************)
(* Generic helpers.                                                        *)
(***************************************************************************)
Min(a, b) == IF a < b THEN a ELSE b
Max(a, b) == IF a > b THEN a ELSE b

Range(s) == {s[i] : i \in DOMAIN s}

RECURSIVE SumSeq(_)
SumSeq(s) == IF s = <<>> THEN 0 ELSE s[1] + SumSeq(Tail(s))

\* sep.join(parts), parts a sequence of strings
RECURSIVE Join(_, _)
Join(parts, sep) ==
    IF parts = <<>> THEN ""
    ELSE IF Len(parts) = 1 THEN parts[1]
    ELSE parts[1] \o sep \o Join(Tail(parts), sep)

\* The sequences over S of length n at most
RECURSIVE SeqsUpTo(_, _)
SeqsUpTo(S, n) ==
    IF n = 0 THEN {<<>>}
    ELSE LET shorter == SeqsUpTo(S, n - 1)
         IN  shorter \cup {Append(q, x) : q \in {t \in shorter : Len(t) = n - 1}, x \in S}

\* [str(x) for x in xs]
StrAll(xs) == [i \in DOMAIN xs |-> ToString(xs[i])]

(***************************************************************************)
(* generate_candidate_strategies                                           *)
(***************************************************************************)
DefaultCompounds == <<"SOFT", "MEDIUM", "HARD">>

\* str.upper() on the compound identifiers of the model
Upper(c) ==
    CASE c = "soft" -> "SOFT"
      [] c = "medium" -> "MEDIUM"
      [] c = "hard" -> "HARD"
      [] OTHER -> c

\* int(total_laps * pct/100): float product truncated toward zero
IntOfPct(laps, pct) ==
    IF laps >= 0 THEN (laps * pct) \div 100 ELSE -(((-laps) * pct) \div 100)

OneStopPits(laps) == <<IntOfPct(laps, 38), IntOfPct(laps, 50), IntOfPct(laps, 62)>>

OneStopName(c1, c2, pit) == "ONE_STOP_" \o c1 \o "_" \o c2 \o "_L" \o ToString(pit)

TwoStopName(c1, c2, c3, pit1, pit2) ==
    "TWO_STOP_" \o c1 \o "_" \o c2 \o "_" \o c3 \o "_L" \o ToString(pit1)
        \o "_" \o ToString(pit2)

\* Faulty variant: the one-stop loop nest without the test c1 == c2
OneStopOptionsAnyPair(unique, laps) ==
    LET n == Len(unique)
    IN  [e \in 1..(n * n * 3) |->
            LET c1 == unique[((e - 1) \div (3 * n)) + 1]
                c2 == unique[(((e - 1) \div 3) % n) + 1]
                pit == OneStopPits(laps)[((e - 1) % 3) + 1]
            IN  [name |-> OneStopName(c1, c2, pit),
                 compounds |-> <<c1, c2>>,
                 pit_laps |-> <<pit>>]]

\* The one-stop loop nest, in iteration order (c1 outer, c2, then the pit lap)
OneStopOptions(unique, laps) ==
    LET n == Len(unique)
        all == [e \in 1..(n * n * 3) |->
                 LET c1 == unique[((e - 1) \div (3 * n)) + 1]
                     c2 == unique[(((e - 1) \div 3) % n) + 1]
                     pit == OneStopPits(laps)[((e - 1) % 3) + 1]
                 IN  [name |-> OneStopName(c1, c2, pit),
                      compounds |-> <<c1, c2>>,
                      pit_laps |-> <<pit>>]]
        Distinct(c) == c.compounds[1] # c.compounds[2]
    IN  SelectSeq(all, Distinct)

\* The two-stop loop nest, in iteration order (c1 outer, c2, c3)
TwoStopOptions(unique, laps) ==
    LET n == Len(unique)
        pit1 == IntOfPct(laps, 32)
        pit2 == IntOfPct(laps, 67)
        all == [e \in 1..(n * n * n) |->
                 LET c1 == unique[((e - 1) \div (n * n)) + 1]
                     c2 == unique[(((e - 1) \div n) % n) + 1]
                     c3 == unique[((e - 1) % n) + 1]
                 IN  [name |-> TwoStopName(c1, c2, c3, pit1, pit2),
                      compounds |-> <<c1, c2, c3>>,
                      pit_laps |-> <<pit1, pit2>>]]
        Mixed(c) == Cardinality(Range(c.compounds)) >= 2
    IN  SelectSeq(all, Mixed)

\* {c.name: c for c in out} then list(dedup.values()): a key keeps the place of
\* its first insertion and the value of its last one
DedupByName(out) ==
    LET last(i) == CHOOSE j \in DOMAIN out :
                      /\ out[j].name = out[i].name
                      /\ \A k \in DOMAIN out : out[k].name = out[i].name => k <= j
        idx == [i \in DOMAIN out |-> i]
        First(i) == \A k \in 1..(i - 1) : out[k].name # out[i].name
        firsts == SelectSeq(idx, First)
    IN  [p \in DOMAIN firsts |-> out[last(firsts[p])]]

\* lines 25-58: the list out before the de-duplication
EnumeratedOptions(laps, comps) ==
    LET given == IF comps = <<>> THEN DefaultCompounds ELSE comps
        unique == [i \in DOMAIN given |-> Upper(given[i])]
    IN  OneStopOptions(unique, laps) \o TwoStopOptions(unique, laps)

GenerateCandidateStrategies(laps, comps) ==
    DedupByName(EnumeratedOptions(laps, comps))

(***************************************************************************)
(* numpy.random.Generator: default_rng(seed) builds a fresh state from the  *)
(* seed alone; every draw advances the state and derives its value from it. *)
(***************************************************************************)
\* Faulty variant: the generator is not built from the seed; the call goes on drawing
\* from the generator the previous call left
DefaultRngStale(seed) == rng

DefaultRng(seed) == (17 * seed + 5) % 100

RngAdvance(s) == (2 * s + 1) % 101

\* rng.random(): uniform in [0, 1), in thousandths
Random(s) ==
    LET n == RngAdvance(s) IN [value |-> (n * 1000) \div 101, rng |-> n]

\* rng.uniform(lo, hi)
Uniform(s, lo, hi) ==
    LET u == Random(s) IN [value |-> lo + ((hi - lo) * u.value) \div 1000, rng |-> u.rng]

\* a standard normal deviate, in thousandths
StdNormal(s) ==
    LET n == RngAdvance(s)
    IN  [value |-> <<-1500, -700, -200, 0, 200, 700, 1500>>[(n % 7) + 1], rng |-> n]

\* rng.normal(loc, scale)
Normal(s, loc, scale) ==
    LET z == StdNormal(s) IN [value |-> loc + (scale * z.value) \div 1000, rng |-> z.rng]

(***************************************************************************)
(* _compound_for_lap, _simulate_single_race, _simulated_points             *)
(***************************************************************************)
\* Faulty variant: the pit lap itself counts as passed
StintIndexFromPitLap(strategy, lap) ==
    IF strategy.pit_laps = <<>> THEN 0
    ELSE Min(Cardinality({i \in DOMAIN strategy.pit_laps : lap >= strategy.pit_laps[i]}),
             Len(strategy.compounds) - 1)

\* lines 65-72: the index into strategy.compounds (0 without pit laps)
StintIndex(strategy, lap) ==
    IF strategy.pit_laps = <<>> THEN 0
    ELSE Min(Cardinality({i \in DOMAIN strategy.pit_laps : lap > strategy.pit_laps[i]}),
             Len(strategy.compounds) - 1)

CompoundForLap(strategy, lap) == strategy.compounds[StintIndex(strategy, lap) + 1]

\* degradation.get(compound, 0.1)
DegradationGet(degradation, compound) ==
    IF compound \in DOMAIN degradation THEN degradation[compound] ELSE 100

\* max(0.05, min(0.3, fuel_load_proxy / max(total_laps * 0.06, 1)))
FuelEffect(fuel_load_proxy, laps) ==
    Max(50, Min(300, (fuel_load_proxy * 1000) \div Max(laps * 60, 1000)))

\* Faulty variant: a lap time is added as it is
LapTimeUnfloored(lap_time) == lap_time

\* line 110: max(lap_time, 40.0)
LapTimeFloor(lap_time) == Max(lap_time, 40000)

\* Faulty variant: every trial draws from a generator of its own
TrialStartReseeded(gen) ==
    [race_time |-> 0, stint_age |-> 0, rng |-> DefaultRng(random_state)]

\* Faulty variant: the clock of a trial starts at one floor lap
TrialStartTimed(gen) == [race_time |-> 40000, stint_age |-> 0, rng |-> gen]

\* lines 86-87: the locals of a trial before its first lap, on the generator
\* the caller passed
TrialStart(gen) == [race_time |-> 0, stint_age |-> 0, rng |-> gen]

\* One iteration of the lap loop (lines 93-111) entered with the locals st:
\* the locals after it, with what the iteration did (pitted, pit_loss charged,
\* compound and tire age used, lap time added, draws made in order, each with
\* the generator state it was made from)
LapLocals(st, strategy, lap, laps, p, c) ==
    LET isPit == lap \in Range(strategy.pit_laps)
        u == Random(st.rng)
        sc == u.value < c.safety_car_probability
        f == Uniform(u.rng, 550, 750)
        pit_loss == IF sc THEN (c.pit_loss_seconds * f.value) \div 1000
                    ELSE c.pit_loss_seconds
        rng1 == IF ~isPit THEN st.rng ELSE IF sc THEN f.rng ELSE u.rng
        time1 == IF isPit THEN st.race_time + pit_loss ELSE st.race_time
        age1 == IF isPit THEN 0 ELSE st.stint_age
        compound == CompoundForLap(strategy, lap)
        deg == DegradationGet(p.degradation, compound)
        fuel_term == -((FuelEffect(p.fuel_load_proxy, laps) * lap * 5) \div laps)
        tire_term == deg * age1
        t == Normal(rng1, 100, 80)
        traffic_term == (p.traffic_index * t.value) \div 1000
        w == Normal(t.rng, 250, 120)
        weather_term == (p.rain_index * w.value) \div 1000
        noise == Normal(w.rng, 0,
                        c.weather_uncertainty_seconds + c.traffic_uncertainty_seconds)
        lap_time == p.base_lap_time + fuel_term + tire_term + traffic_term
                        + weather_term + noise.value
        pit_draws == IF ~isPit THEN <<>>
                     ELSE IF sc THEN <<[kind |-> "safety_car", from |-> st.rng],
                                       [kind |-> "pit_factor", from |-> u.rng]>>
                     ELSE <<[kind |-> "safety_car", from |-> st.rng]>>
    IN  [race_time |-> time1 + LapTimeFloor(lap_time),
         stint_age |-> age1 + 1,
         rng |-> noise.rng,
         lap |-> lap,
         pitted |-> isPit,
         pit_loss |-> IF isPit THEN pit_loss ELSE 0,
         stint |-> StintIndex(strategy, lap),
         compound |-> compound,
         tire_age |-> age1,
         deg |-> deg,
         lap_time |-> lap_time,
         before |-> st.race_time,
         draws |-> pit_draws \o <<[kind |-> "traffic", from |-> rng1],
                                   [kind |-> "weather", from |-> t.rng],
                                   [kind |-> "noise", from |-> w.rng]>>]

\* The locals the loop carries from one iteration to the next
LapStep(st, strategy, lap, laps, p, c) ==
    LET after == LapLocals(st, strategy, lap, laps, p, c)
    IN  [race_time |-> after.race_time, stint_age |-> after.stint_age,
         rng |-> after.rng]

\* The state after the laps 1..lap of one trial
RECURSIVE RaceAfter(_, _, _, _, _, _)
RaceAfter(lap, strategy, laps, p, c, gen) ==
    IF lap <= 0 THEN TrialStart(gen)
    ELSE LET before == RaceAfter(lap - 1, strategy, laps, p, c, gen)
         IN  LapStep(before, strategy, lap, laps, p, c)

\* _simulate_single_race: [value |-> race time, rng |-> generator afterwards]
SimulateSingleRace(strategy, laps, p, c, gen) ==
    LET end == RaceAfter(laps, strategy, laps, p, c, gen)
    IN  [value |-> end.race_time, rng |-> end.rng]

F1Points(position) ==
    IF position \in 1..10
    THEN <<25, 18, 15, 12, 10, 8, 6, 4, 2, 1>>[position]
    ELSE 0

RivalOffsets == <<0, 4000, 8200, 12000, 15500, 19800, 23500, 27000, 31200>>

\* rng.normal(0, 2.8, size=k): the first k draws, [values, rng]
RECURSIVE NormalVector(_, _, _, _)
NormalVector(s, loc, scale, k) ==
    IF k = 0 THEN [values |-> <<>>, rng |-> s]
    ELSE LET head == NormalVector(s, loc, scale, k - 1)
             d == Normal(head.rng, loc, scale)
         IN  [values |-> Append(head.values, d.value), rng |-> d.rng]

\* Faulty variant: a rival level with the team counted as ahead
PositionOrLevel(rival_times, team_race_time) ==
    1 + Cardinality({i \in DOMAIN rival_times : rival_times[i] <= team_race_time})

\* line 122: position = 1 + int(np.sum(rival_times < team_race_time))
Position(rival_times, team_race_time) ==
    1 + Cardinality({i \in DOMAIN rival_times : rival_times[i] < team_race_time})

\* Faulty variant: the rivals run to a reference race time of their own
RivalTimesAbsolute(team_race_time, rival_noise) ==
    [i \in DOMAIN RivalOffsets |-> 5400000 + RivalOffsets[i] + rival_noise[i]]

\* lines 119-121: rival_times = team_race_time + rival_offsets + rival_noise
RivalTimes(team_race_time, rival_noise) ==
    [i \in DOMAIN RivalOffsets |-> team_race_time + RivalOffsets[i] + rival_noise[i]]

\* lines 119-123 for the noise vector drawn at line 118: the locals and the result
PointsOfNoise(team_race_time, rival_noise) ==
    LET rival_times == RivalTimes(team_race_time, rival_noise)
        position == Position(rival_times, team_race_time)
    IN  [team_race_time |-> team_race_time, rival_noise |-> rival_noise,
         rival_times |-> rival_times, position |-> position,
         points |-> F1Points(position)]

SimulatedPoints(team_race_time, gen) ==
    LET rival_noise == NormalVector(gen, 0, 2800, Len(RivalOffsets))
    IN  [value |-> PointsOfNoise(team_race_time, rival_noise.values).points,
         rng |-> rival_noise.rng]

(***************************************************************************)
(* Sorting as pandas sorts: stable, by a list of keys.                     *)
(***************************************************************************)
LexLess(a, b) == a[1] < b[1] \/ (a[1] = b[1] /\ a[2] < b[2])

\* The stable ascending order of a sequence of key pairs, as a sequence of
\* positions (what numpy's lexsort / a stable argsort returns)
ArgSort(keys) ==
    LET place == [i \in DOMAIN keys |->
                    1 + Cardinality({j \in DOMAIN keys :
                          \/ LexLess(keys[j], keys[i])
                          \/ (keys[j] = keys[i] /\ j < i)})]
    IN  [pos \in DOMAIN keys |-> CHOOSE i \in DOMAIN keys : place[i] = pos]

SortedInts(xs) ==
    LET order == ArgSort([i \in DOMAIN xs |-> <<xs[i], 0>>])
    IN  [pos \in DOMAIN xs |-> xs[order[pos]]]

\* Faulty variant: ascending=[True, True]
SortByScoreAscending(rows, score_col, time_col) ==
    LET order == ArgSort([i \in DOMAIN rows |-> <<rows[i][score_col], rows[i][time_col]>>])
    IN  [pos \in DOMAIN rows |-> rows[order[pos]]]

\* frame.sort_values(by=[score_col, time_col], ascending=[False, True])
\*      .reset_index(drop=True)
SortByScoreThenTime(rows, score_col, time_col) ==
    LET order == ArgSort([i \in DOMAIN rows |-> <<-rows[i][score_col], rows[i][time_col]>>])
    IN  [pos \in DOMAIN rows |-> rows[order[pos]]]

(***************************************************************************)
(* evaluate_strategies                                                     *)
(***************************************************************************)
\* Faulty variant: the interpolation done on the samples as drawn, not sorted
PercentileUnsorted(samples, q) ==
    LET n == Len(samples)
        at == q * (n - 1)
        lo == at \div 100
        hi == Min(lo + 1, n - 1)
    IN  samples[lo + 1] + ((samples[hi + 1] - samples[lo + 1]) * (at % 100)) \div 100

\* np.percentile(samples, q) (linear interpolation between order statistics)
Percentile(samples, q) ==
    LET s == SortedInts(samples)
        n == Len(s)
        at == q * (n - 1)
        lo == at \div 100
        hi == Min(lo + 1, n - 1)
    IN  s[lo + 1] + ((s[hi + 1] - s[lo + 1]) * (at % 100)) \div 100

\* samples.append(_simulate_single_race(...)) on the generator the list left
AddTrial(head, strategy, laps, p, c) ==
    LET t == SimulateSingleRace(strategy, laps, p, c, head.rng)
    IN  [values |-> Append(head.values, t.value), rng |-> t.rng]

\* [_simulate_single_race(...) for _ in range(n)]: [values, rng]
RECURSIVE Trials(_, _, _, _, _, _)
Trials(n, strategy, laps, p, c, s) ==
    IF n <= 0 THEN [values |-> <<>>, rng |-> s]
    ELSE AddTrial(Trials(n - 1, strategy, laps, p, c, s), strategy, laps, p, c)

AddPoints(head, team_race_time) ==
    LET pt == SimulatedPoints(team_race_time, head.rng)
    IN  [values |-> Append(head.values, pt.value), rng |-> pt.rng]

\* [_simulated_points(t, rng=rng) for t in samples]: [values, rng]
RECURSIVE PointsFor(_, _, _)
PointsFor(samples, k, s) ==
    IF k = 0 THEN [values |-> <<>>, rng |-> s]
    ELSE AddPoints(PointsFor(samples, k - 1, s), samples[k])

\* lines 160-182: the row of a candidate from its samples and its points
CandidateRow(candidate, samples, points, p10, p90) ==
    LET n == Len(samples)
        wins == Cardinality({i \in DOMAIN points : points[i] >= 25})
        expected_points == (SumSeq(points) * 1000) \div n
    IN  [strategy |-> candidate.name,
         stops |-> Len(candidate.pit_laps),
         compounds |-> Join(candidate.compounds, "->"),
         pit_laps |-> Join(StrAll(candidate.pit_laps), ","),
         expected_race_time |-> SumSeq(samples) \div n,
         p10_time |-> p10,
         p90_time |-> p90,
         robustness_window |-> p90 - p10,
         win_probability |-> (wins * 1000) \div n,
         expected_points |-> expected_points,
         strategy_score |-> expected_points - (2 * (p90 - p10)) \div 100]

\* line 159 onwards: the points of the samples, then the row
ScoreSamples(candidate, samples) ==
    LET points == PointsFor(samples.values, Len(samples.values), samples.rng)
    IN  [row |-> CandidateRow(candidate, samples.values, points.values,
                              Percentile(samples.values, 10),
                              Percentile(samples.values, 90)),
         rng |-> points.rng]

\* The body of the candidate loop: [row, rng]
EvaluateCandidate(candidate, laps, p, c, s) ==
    ScoreSamples(candidate, Trials(c.n_simulations, candidate, laps, p, c, s))

\* Two consecutive stretches of the candidate loop, the second one run on the
\* generator the first one left
RowsThen(head, tail) == [rows |-> head.rows \o tail.rows, rng |-> tail.rng]

\* The candidate loop over cands[lo..hi], entered with generator s: [rows, rng].
\* The loop is sequential (each candidate draws from the generator the previous
\* one left); it is unfolded by halves.
RECURSIVE EvaluateRows(_, _, _, _, _, _, _)
RowsAfter(head, cands, lo, hi, laps, p, c) ==
    RowsThen(head, EvaluateRows(cands, lo, hi, laps, p, c, head.rng))

EvaluateRows(cands, lo, hi, laps, p, c, s) ==
    IF lo > hi THEN [rows |-> <<>>, rng |-> s]
    ELSE IF lo = hi
    THEN LET e == EvaluateCandidate(cands[lo], laps, p, c, s)
         IN  [rows |-> <<e.row>>, rng |-> e.rng]
    ELSE RowsAfter(EvaluateRows(cands, lo, (lo + hi) \div 2, laps, p, c, s),
                   cands, ((lo + hi) \div 2) + 1, hi, laps, p, c)

\* Faulty variant: an empty frame returned as it is
SortEvaluatedLenient(done) ==
    [table |-> SortByScoreThenTime(done.rows, "strategy_score", "expected_race_time"),
     rng |-> done.rng, err |-> ""]

\* lines 184-187.  pd.DataFrame([]) has no columns, so sort_values raises
\* KeyError for an empty candidate list.
SortEvaluated(done) ==
    IF done.rows = <<>>
    THEN [table |-> <<>>, rng |-> done.rng, err |-> "KeyError"]
    ELSE [table |-> SortByScoreThenTime(done.rows, "strategy_score",
                                        "expected_race_time"),
          rng |-> done.rng, err |-> ""]

\* evaluate_strategies: [table, rng, err]
EvaluateStrategies(cands, laps, p, c, seed) ==
    SortEvaluated(EvaluateRows(cands, 1, Len(cands), laps, p, c, DefaultRng(seed)))

(***************************************************************************)
(* Contingency scenarios (deltas in thousandths, multipliers in per-mille) *)
(***************************************************************************)
Scenario(key) ==
    [key |-> key, base_lap_delta |-> 0, deg_multiplier |-> 1000, fuel_delta |-> 0,
     traffic_delta |-> 0, rain_delta |-> 0, pit_loss_delta |-> 0,
     safety_car_delta |-> 0, weather_uncertainty_scale |-> 1000,
     traffic_uncertainty_scale |-> 1000]

CONTINGENCY_SCENARIOS ==
    << Scenario("baseline"),
       [Scenario("weather_change") EXCEPT
            !.deg_multiplier = 1150, !.traffic_delta = 100, !.rain_delta = 350,
            !.weather_uncertainty_scale = 1350],
       [Scenario("engine_conservation") EXCEPT
            !.base_lap_delta = 450, !.fuel_delta = 120, !.pit_loss_delta = 1100,
            !.safety_car_delta = 40],
       [Scenario("driver_error_recovery") EXCEPT
            !.base_lap_delta = 220, !.traffic_delta = 240, !.safety_car_delta = 60,
            !.traffic_uncertainty_scale = 1300],
       [Scenario("race_chaos") EXCEPT
            !.traffic_delta = 180, !.rain_delta = 140, !.safety_car_delta = 160,
            !.weather_uncertainty_scale = 1200, !.traffic_uncertainty_scale = 1250] >>

ScenarioKeys == [i \in DOMAIN CONTINGENCY_SCENARIOS |-> CONTINGENCY_SCENARIOS[i].key]

\* _scenario_cfg
ScenarioCfg(base_cfg, scenario, n_simulations) ==
    [n_simulations |-> n_simulations,
     pit_loss_seconds |-> Max(5000, base_cfg.pit_loss_seconds + scenario.pit_loss_delta),
     safety_car_probability |->
         Min(950, Max(0, base_cfg.safety_car_probability + scenario.safety_car_delta)),
     weather_uncertainty_seconds |->
         Max(10, (base_cfg.weather_uncertainty_seconds
                    * scenario.weather_uncertainty_scale) \div 1000),
     traffic_uncertainty_seconds |->
         Max(10, (base_cfg.traffic_uncertainty_seconds
                    * scenario.traffic_uncertainty_scale) \div 1000)]

\* _scenario_degradation
ScenarioDegradation(degradation, scenario) ==
    [k \in DOMAIN degradation |->
        Max(0, (degradation[k] * scenario.deg_multiplier) \div 1000)]

IdentityCols == {"strategy", "stops", "compounds", "pit_laps"}

\* _trim_eval_columns: keep the identity columns and four metrics, the metrics
\* renamed to f"{prefix}_{metric}"
TrimEvalColumns(frame, prefix) ==
    [i \in DOMAIN frame |->
        [col \in IdentityCols |-> frame[i][col]]
          @@ ((prefix \o "_expected_race_time") :> frame[i].expected_race_time)
          @@ ((prefix \o "_win_probability") :> frame[i].win_probability)
          @@ ((prefix \o "_strategy_score") :> frame[i].strategy_score)
          @@ ((prefix \o "_robustness_window") :> frame[i].robustness_window)]

\* Faulty variant: the join made against right.head(3)
MergeInnerHead(left, right) ==
    LET pairs == {m \in (DOMAIN left) \X (DOMAIN right) :
                     /\ m[2] <= 3
                     /\ \A col \in IdentityCols : left[m[1]][col] = right[m[2]][col]}
        place == [m \in pairs |->
                    1 + Cardinality({o \in pairs : LexLess(o, m)})]
    IN  [k \in 1..Cardinality(pairs) |->
            LET m == CHOOSE o \in pairs : place[o] = k
            IN  left[m[1]] @@ right[m[2]]]

\* left.merge(right, on=[identity columns], how="inner"): for every left row, in
\* order, one row per right row with the same identity, in the right's order
MergeInner(left, right) ==
    LET pairs == {m \in (DOMAIN left) \X (DOMAIN right) :
                     \A col \in IdentityCols : left[m[1]][col] = right[m[2]][col]}
        place == [m \in pairs |->
                    1 + Cardinality({o \in pairs : LexLess(o, m)})]
    IN  [k \in 1..Cardinality(pairs) |->
            LET m == CHOOSE o \in pairs : place[o] = k
            IN  left[m[1]] @@ right[m[2]]]

\* merged = tables[0]; for t in tables[1:]: merged = merged.merge(t, ...)
MergeAll(frames) ==
    MergeInner(MergeInner(MergeInner(MergeInner(frames[1], frames[2]), frames[3]),
                          frames[4]), frames[5])

\* Faulty variant: sort_values() left ascending, so head(3) takes the three lowest
Top3IndexAscending(frame, col) ==
    LET order == ArgSort([i \in DOMAIN frame |-> <<frame[i][col], 0>>])
    IN  {order[pos] : pos \in 1..Min(3, Len(frame))}

\* merged[col].sort_values(ascending=False).head(3).index, as a set of row labels
Top3Index(frame, col) ==
    LET order == ArgSort([i \in DOMAIN frame |-> <<-frame[i][col], 0>>])
    IN  {order[pos] : pos \in 1..Min(3, Len(frame))}

\* Faulty variant: line 111 left out, the count not capped at n_simulations
ContingencySimCountUncapped(n_simulations) ==
    Max(80, IntOfPct(n_simulations, 20))

\* lines 110-111: contingency_sim_count
ContingencySimCount(n_simulations) ==
    Min(n_simulations, Max(80, IntOfPct(n_simulations, 20)))

\* The arguments of the evaluator call made for scenario i (1 = baseline)
ScenarioCall(i, cands, laps, p, c, seed) ==
    LET scenario == CONTINGENCY_SCENARIOS[i]
        count == ContingencySimCount(c.n_simulations)
        n_sim == IF scenario.key = "baseline" THEN c.n_simulations ELSE count
    IN  [candidates |-> cands,
         total_laps |-> laps,
         env |-> [base_lap_time |-> p.base_lap_time + scenario.base_lap_delta,
                  degradation |-> ScenarioDegradation(p.degradation, scenario),
                  fuel_load_proxy |-> Max(0, p.fuel_load_proxy + scenario.fuel_delta),
                  traffic_index |-> Max(0, p.traffic_index + scenario.traffic_delta),
                  rain_index |-> Max(0, p.rain_index + scenario.rain_delta)],
         cfg |-> ScenarioCfg(c, scenario, n_sim),
         random_state |-> seed + ((i - 1) * 97)]

\* lines 133-142: the top-3 loop, the hits column and the final sort
ContingencyResult(calls, gen, trimmed, joined, top3) ==
    LET with_hits == [r \in DOMAIN joined |->
                        joined[r] @@ ("top3_scenario_hits" :>
                            Cardinality({i \in DOMAIN top3 : r \in top3[i]}))]
    IN  [eval_calls |-> calls, tables |-> trimmed, merged |-> with_hits,
         ranked_idx |-> top3,
         table |-> SortByScoreThenTime(with_hits, "baseline_strategy_score",
                                       "baseline_expected_race_time"),
         rng |-> gen, err |-> ""]

\* lines 129-138: the merge, then the top-3 rows of every scenario
MergeTables(calls, gen, trimmed, joined) ==
    ContingencyResult(calls, gen, trimmed, joined,
        [i \in DOMAIN CONTINGENCY_SCENARIOS |->
            Top3Index(joined, ScenarioKeys[i] \o "_strategy_score")])

\* line 127: tables.append(_trim_eval_columns(eval_table, scenario.key)); an
\* exception of the first evaluator call ends the function
TrimTables(calls, evals) ==
    IF evals[1].err # ""
    THEN [eval_calls |-> <<calls[1]>>, tables |-> <<>>, merged |-> <<>>,
          ranked_idx |-> <<>>, table |-> <<>>, rng |-> evals[1].rng,
          err |-> evals[1].err]
    ELSE LET trimmed == [i \in DOMAIN evals |->
                            TrimEvalColumns(evals[i].table, ScenarioKeys[i])]
         IN  MergeTables(calls, evals[Len(evals)].rng, trimmed, MergeAll(trimmed))

\* lines 113-125: one evaluator call per scenario
EvaluateScenarios(calls) ==
    TrimTables(calls,
        [i \in DOMAIN calls |->
            EvaluateStrategies(calls[i].candidates, calls[i].total_laps,
                               calls[i].env, calls[i].cfg, calls[i].random_state)])

\* evaluate_strategies_with_contingencies: its locals and its result
EvaluateStrategiesWithContingencies(cands, laps, p, c, seed) ==
    EvaluateScenarios([i \in DOMAIN CONTINGENCY_SCENARIOS |->
                          ScenarioCall(i, cands, laps, p, c, seed)])

(***************************************************************************)
(* ContingencyRanker                                                       *)
(***************************************************************************)
DisruptionKeys == Tail(ScenarioKeys)

\* Faulty variant: drop_duplicates(subset=["compounds"])
DropDuplicateCompounds(frame) ==
    LET First(i) == \A k \in 1..(i - 1) : frame[k].compounds # frame[i].compounds
        keep == SelectSeq([i \in DOMAIN frame |-> i], First)
    IN  [pos \in DOMAIN keep |-> frame[keep[pos]]]

\* table.drop_duplicates(subset=["strategy"]).reset_index(drop=True)
DropDuplicates(frame) ==
    LET First(i) == \A k \in 1..(i - 1) : frame[k].strategy # frame[i].strategy
        keep == SelectSeq([i \in DOMAIN frame |-> i], First)
    IN  [pos \in DOMAIN keep |-> frame[keep[pos]]]

\* table[cols].mean(axis=1) for the four f"{scenario}_{metric}" columns of a row
ScenarioMean(row, metric) ==
    SumSeq([i \in DOMAIN DisruptionKeys |-> row[DisruptionKeys[i] \o "_" \o metric]])
        \div Len(DisruptionKeys)

\* _target, for one row
Target(row) ==
    ScenarioMean(row, "strategy_score")
        + (2 * ScenarioMean(row, "win_probability")) \div 10
        + 60 * row.top3_scenario_hits
        - ScenarioMean(row, "robustness_window") \div 100

\* train_test_split(test_size=0.25, random_state=...): the held-out rows.  The
\* library holds out ceil(0.25 * n) rows picked by a shuffle its seed decides.
TestRows(n, seed) ==
    LET n_test == (n + 3) \div 4
    IN  {(((seed * 5) + k) % n) + 1 : k \in 0..(n_test - 1)}

\* model.predict(features), row by row.  The fitted regressor is whatever the
\* library returns: `fit` picks its error pattern among those the caller of
\* rank supplies (fit = 0 reproduces the target).
Predict(target, fit) ==
    [i \in DOMAIN target |-> target[i] + fit * 400 * ((i % 3) - 1)]

\* mean_absolute_error(y_test, model.predict(x_test))
MeanAbsoluteError(target, predicted, test) ==
    LET Abs(x) == IF x < 0 THEN -x ELSE x
        errs == [i \in DOMAIN target |->
                    IF i \in test THEN Abs(target[i] - predicted[i]) ELSE 0]
    IN  SumSeq(errs) \div Cardinality(test)

\* Faulty variant: len(work) > 12
FitsModelAbove(work) == Len(work) > 12

\* len(work) >= 12
FitsModel(work) == Len(work) >= 12

\* lines 87-111: the metrics, the score column and the sort
RankWork(work, target, predicted, seed) ==
    LET mae == IF FitsModel(work)
               THEN MeanAbsoluteError(target, predicted, TestRows(Len(work), seed))
               ELSE 0
        scored == [i \in DOMAIN work |->
                     work[i] @@ ("contingency_rank_score" :>
                         IF FitsModel(work) THEN predicted[i] ELSE target[i])]
        order == ArgSort([i \in DOMAIN scored |->
                            <<-scored[i].contingency_rank_score,
                              -scored[i].baseline_strategy_score>>])
    IN  [ranked |-> [pos \in DOMAIN scored |-> scored[order[pos]]],
         metrics |-> [mae |-> mae],
         no_model |-> ~FitsModel(work)]

RankTargets(work, target, seed, fit) == RankWork(work, target, Predict(target, fit), seed)

RankDeduplicated(work, seed, fit) ==
    RankTargets(work, [i \in DOMAIN work |-> Target(work[i])], seed, fit)

\* ContingencyRanker.rank: [ranked, metrics, no_model]
Rank(table, seed, fit) == RankDeduplicated(DropDuplicates(table), seed, fit)

(***************************************************************************)
(* run_season_pipeline: the selection of one event                         *)
(***************************************************************************)
\* The pieces a compounds column and a pit_laps column can split into
CompoundPieces == {"SOFT", "MEDIUM", "HARD", ""}

PitLapPieces == {ToString(n) : n \in 0..MaxLaps} \cup {""}

\* text.split(sep): the pieces, free of sep, whose join is the text
Split(text, sep, pieces, most) ==
    CHOOSE q \in SeqsUpTo(pieces, most) : q # <<>> /\ Join(q, sep) = text

\* _parse_compounds: the non-blank pieces between "->"
ParseCompounds(text) ==
    SelectSeq(Split(text, "->", CompoundPieces, 3), LAMBDA c : c # "")

\* _parse_pit_laps: int(x) of every non-blank piece between ","
ParsePitLaps(text) ==
    LET filled == SelectSeq(Split(text, ",", PitLapPieces, 2), LAMBDA x : x # "")
    IN  [i \in DOMAIN filled |-> CHOOSE n \in 0..MaxLaps : ToString(n) = filled[i]]

\* Faulty variant: the step names the compound taken off, c[i], not the one fitted
PlanStepsOldCompound(c, pits) ==
    [i \in DOMAIN pits |->
        "Pit on lap " \o ToString(pits[i]) \o " -> " \o c[Min(i, Len(c))]]

\* lines 95-97: one step per pit lap, next_compound = c[min(i + 1, len(c) - 1)]
PlanSteps(c, pits) ==
    [i \in DOMAIN pits |->
        "Pit on lap " \o ToString(pits[i]) \o " -> " \o c[Min(i + 1, Len(c))]]

\* _plan_text
PlanText(compounds_text, pit_laps_text) ==
    LET c == ParseCompounds(compounds_text)
        pits == ParsePitLaps(pit_laps_text)
    IN  IF c = <<>> THEN "No strategy data"
        ELSE IF pits = <<>>
        THEN "Start on " \o c[1] \o " and run full race (0 planned stops)"
        ELSE Join(<<"Start on " \o c[1]>> \o PlanSteps(c, pits), "; ")

\* scenario_to_reason
ScenarioToReason(key) ==
    CASE key = "weather_change" -> "Weather change or sudden rain"
      [] key = "engine_conservation" -> "Engine reliability concern"
      [] key = "driver_error_recovery" -> "Driver error recovery"
      [] key = "race_chaos" -> "Safety car or race chaos"

\* float("-inf"): below every score
MinusInfinity == -1000000000

\* line 154: available[k] = float(row.get(col, float("-inf")))
Available(row, key) ==
    IF (key \o "_strategy_score") \in DOMAIN row
    THEN row[key \o "_strategy_score"]
    ELSE MinusInfinity

\* Faulty variant: of equal scores the last scenario wins
BestScenarioLast(row) ==
    LET keys == <<"weather_change", "engine_conservation", "driver_error_recovery",
                  "race_chaos">>
        best == CHOOSE i \in DOMAIN keys :
                    /\ \A j \in DOMAIN keys :
                          Available(row, keys[j]) <= Available(row, keys[i])
                    /\ \A j \in (i + 1)..Len(keys) :
                          Available(row, keys[j]) < Available(row, keys[i])
    IN  keys[best]

\* line 155: max(available, key=available.get), the first key of the highest
\* value in the order of scenario_to_reason
BestScenario(row) ==
    LET keys == <<"weather_change", "engine_conservation", "driver_error_recovery",
                  "race_chaos">>
        best == CHOOSE i \in DOMAIN keys :
                    /\ \A j \in DOMAIN keys :
                          Available(row, keys[j]) <= Available(row, keys[i])
                    /\ \A j \in 1..(i - 1) :
                          Available(row, keys[j]) < Available(row, keys[i])
    IN  keys[best]

\* contingency_reason_from_row
ContingencyReasonFromRow(row) == ScenarioToReason(BestScenario(row))

\* row.get(col, default)
RowGet(row, col, default) == IF col \in DOMAIN row THEN row[col] ELSE default

\* [0] of a parsed list, or the value given for an empty one
FirstOr(parsed, none) == IF parsed # <<>> THEN parsed[1] ELSE none

\* _fallback_payload
FallbackPayload(row, prefix) ==
    LET compounds_text == RowGet(row, "compounds", "")
        pits == RowGet(row, "pit_laps", "")
    IN  ((prefix \o "_strategy") :> RowGet(row, "strategy", ""))
        @@ ((prefix \o "_stops") :> RowGet(row, "stops", 0))
        @@ ((prefix \o "_start_compound") :> FirstOr(ParseCompounds(compounds_text), ""))
        @@ ((prefix \o "_pit_laps") :> pits)
        @@ ((prefix \o "_first_pit_lap") :> FirstOr(ParsePitLaps(pits), "None"))
        @@ ((prefix \o "_plan") :> PlanText(compounds_text, pits))
        @@ ((prefix \o "_trigger") :> ContingencyReasonFromRow(row))

\* lines 278-288 and 292-302: the fields of a fallback that does not exist
NoFallback(prefix) ==
    ((prefix \o "_strategy") :> "")
    @@ ((prefix \o "_stops") :> 0)
    @@ ((prefix \o "_start_compound") :> "")
    @@ ((prefix \o "_pit_laps") :> "")
    @@ ((prefix \o "_first_pit_lap") :> "None")
    @@ ((prefix \o "_plan") :> "")
    @@ ((prefix \o "_trigger") :> "")

\* lines 275-302
FallbackFields(fallback_rows, k, prefix) ==
    IF Len(fallback_rows) >= k
    THEN FallbackPayload(fallback_rows[k], prefix)
    ELSE NoFallback(prefix)

\* frame[frame["strategy"] != name].head(k)
OtherThan(frame, names, k) ==
    LET Other(r) == r.strategy \notin names
        rest == SelectSeq(frame, Other)
    IN  SubSeq(rest, 1, Min(k, Len(rest)))

\* Faulty variant: the two top rows of the ranker, the primary not filtered out
FallbackRowsUnfiltered(ranked_rows, baseline_ranked, best) ==
    SubSeq(ranked_rows, 1, Min(2, Len(ranked_rows)))

\* lines 247-254: the fallback rows
FallbackRows(ranked_rows, baseline_ranked, best) ==
    LET first == OtherThan(ranked_rows, {best.strategy}, 2)
        extra == OtherThan(baseline_ranked,
                           {best.strategy} \cup {first[i].strategy : i \in DOMAIN first},
                           2 - Len(first))
    IN  IF Len(first) < 2 THEN first \o extra ELSE first

\* lines 239-302: the recommendation record (the fields the selection decides)
SelectEvent(table, ranked_rows) ==
    LET baseline_ranked == SortByScoreThenTime(table, "baseline_strategy_score",
                                               "baseline_expected_race_time")
        best == baseline_ranked[1]
        fallback_rows == FallbackRows(ranked_rows, baseline_ranked, best)
    IN  [best_strategy |-> best.strategy,
         compounds |-> best.compounds,
         pit_laps |-> best.pit_laps,
         stops |-> best.stops,
         start_compound |-> FirstOr(ParseCompounds(best.compounds), ""),
         first_pit_lap |-> FirstOr(ParsePitLaps(best.pit_laps), "None"),
         strategy_plan |-> PlanText(best.compounds, best.pit_laps),
         expected_race_time |-> best.baseline_expected_race_time,
         win_probability |-> best.baseline_win_probability,
         strategy_score |-> best.baseline_strategy_score,
         robustness_window |-> best.baseline_robustness_window]
        @@ FallbackFields(fallback_rows, 1, "fallback_2")
        @@ FallbackFields(fallback_rows, 2, "fallback_3")

\* recommendations[column] of the frame built from the records: KeyError when
\* no record has the field
Column(recommendations, column) ==
    IF \A i \in DOMAIN recommendations : column \notin DOMAIN recommendations[i]
    THEN [err |-> "KeyError", values |-> <<>>]
    ELSE [err |-> "", values |-> [i \in DOMAIN recommendations |->
                                     recommendations[i][column]]]

\* project_championship (championship.py 12-48) without the two title
\* probabilities: [err, value]
ProjectChampionship(recommendations) ==
    IF recommendations = <<>>
    THEN [err |-> "",
          value |-> [projected_driver_points |-> 0, projected_teammate_points |-> 0,
                     projected_constructors_points |-> 0]]
    ELSE LET points == Column(recommendations, "expected_points")
             scores == Column(recommendations, "strategy_score")
             driver_points == SumSeq(points.values)
             avg_score == SumSeq(scores.values) \div Len(scores.values)
             teammate_multiplier == 750 + Max(0, Min(200, (avg_score - 8000) \div 20))
             teammate_points == (driver_points * teammate_multiplier) \div 1000
         IN  IF points.err # "" THEN [err |-> points.err, value |-> <<>>]
             ELSE IF scores.err # "" THEN [err |-> scores.err, value |-> <<>>]
             ELSE [err |-> "",
                   value |-> [projected_driver_points |-> driver_points,
                              projected_teammate_points |-> teammate_points,
                              projected_constructors_points |->
                                  driver_points + teammate_points]]

\* lines 306-327 of run_season_pipeline: the files written once the records of
\* the events are made, in the order of the code, up to the first exception
ReportsWritten(recommendations) ==
    LET championship == ProjectChampionship(recommendations)
    IN  [err |-> championship.err,
         files |-> IF championship.err = ""
                   THEN {"strategy_recommendations", "championship_projection",
                         "run_summary"}
                   ELSE {"strategy_recommendations"}]

(***************************************************************************)
(* Inputs                                                                  *)
(***************************************************************************)
CompoundPool == {"SOFT", "MEDIUM", "HARD", "soft"}

\* a compound list whose identifiers hold the separator of the names
UnderscoreCompounds == <<"SOFT", "C5", "SOFT_C5">>

\* StrategyConfig.default_total_laps
default_total_laps == 58

\* compound lists given to generate_candidate_strategies alone
GeneratorCompounds == SeqsUpTo(CompoundPool, MaxCompounds) \cup {UnderscoreCompounds}

\* compound lists of the events run through the whole engine
EventCompounds == {<<"SOFT", "HARD">>, <<"soft", "SOFT">>, <<"SOFT">>}

\* SimulationConfig: the defaults of settings.py and a caller's extreme values
DefaultSimulation ==
    [pit_loss_seconds |-> 21500, safety_car_probability |-> 180,
     weather_uncertainty_seconds |-> 350, traffic_uncertainty_seconds |-> 400]

ExtremeSimulation ==
    [pit_loss_seconds |-> 3000, safety_car_probability |-> 1000,
     weather_uncertainty_seconds |-> 0, traffic_uncertainty_seconds |-> 0]

\* per-event inputs: the pipeline's fallback values
DryEvent ==
    [base_lap_time |-> 90500,
     degradation |-> [c \in {"SOFT", "MEDIUM", "HARD"} |->
                         CASE c = "SOFT" -> 160 [] c = "MEDIUM" -> 110 [] OTHER -> 80],
     fuel_load_proxy |-> 950, traffic_index |-> 500, rain_index |-> 50]

\* a slow wet event whose degradation mapping lacks HARD
WetEvent ==
    [base_lap_time |-> 40200,
     degradation |-> [c \in {"SOFT", "MEDIUM"} |-> IF c = "SOFT" THEN 180 ELSE 120],
     fuel_load_proxy |-> 900, traffic_index |-> 0, rain_index |-> 2000]

\* the (SimulationConfig, event inputs) pairs the engine is run on
CallerEvents ==
    {[cfg |-> DefaultSimulation, env |-> DryEvent],
     [cfg |-> ExtremeSimulation, env |-> WetEvent]}

NoTable == <<>>

InitRest ==
    /\ pc = "start"
    /\ rng = 0
    /\ candidates = <<>>
    /\ eval_table = NoTable
    /\ eval_table_2 = NoTable
    /\ eval_calls = <<>>
    /\ tables = <<>>
    /\ merged = NoTable
    /\ ranked_idx = <<>>
    /\ contingency_table = NoTable
    /\ ranked = NoTable
    /\ metrics = <<>>
    /\ no_model = FALSE
    /\ rec = <<>>
    /\ err = ""
    /\ trial = <<>>
    /\ race = <<>>
    /\ outputs = {}

Init ==
    /\ total_laps \in 1..MaxLaps
    /\ compounds \in EventCompounds
    /\ \E ev \in CallerEvents, n \in 1..MaxSims :
          /\ cfg = [n_simulations |-> n] @@ ev.cfg
          /\ env = ev.env
    /\ random_state \in 0..MaxSeed
    /\ InitRest

InitGen ==
    /\ total_laps \in ((-1)..MaxLaps) \cup {default_total_laps}
    /\ compounds \in GeneratorCompounds
    /\ cfg \in {[n_simulations |-> 1] @@ DefaultSimulation}
    /\ env = DryEvent
    /\ random_state = 0
    /\ InitRest

(***************************************************************************)
(* Actions: one per call of the engine's functions                         *)
(***************************************************************************)
\* What the caller keeps of a call's result r
ReturnDirect(r) ==
    /\ eval_table' = r.table
    /\ rng' = r.rng
    /\ err' = r.err
    /\ pc' = IF r.err = "" THEN "evaluated" ELSE "failed"

ReturnAgain(r) ==
    /\ eval_table_2' = r.table
    /\ rng' = r.rng
    /\ err' = r.err
    /\ pc' = IF r.err = "" THEN "evaluated_twice" ELSE "failed"

ReturnContingencies(r) ==
    /\ eval_calls' = r.eval_calls
    /\ tables' = r.tables
    /\ merged' = r.merged
    /\ ranked_idx' = r.ranked_idx
    /\ contingency_table' = r.table
    /\ rng' = r.rng
    /\ err' = r.err
    /\ pc' = IF r.err = "" THEN "contingency" ELSE "rejected"

ReturnRank(r) ==
    /\ ranked' = r.ranked
    /\ metrics' = r.metrics
    /\ no_model' = r.no_model

\* candidates = generate_candidate_strategies(total_laps, compounds)
Generate ==
    /\ pc = "start"
    /\ candidates' = GenerateCandidateStrategies(total_laps, compounds)
    /\ pc' = "generated"
    /\ UNCHANGED <<inputVars, unitVars, rng, evalVars, contVars, rankVars, rec, err>>

\* The caller keeps only the first k candidates
TakeFirst ==
    /\ pc = "generated"
    /\ \E k \in 1..MaxTake :
          /\ k < Len(candidates)
          /\ candidates' = SubSeq(candidates, 1, k)
    /\ pc' = "supplied"
    /\ UNCHANGED <<inputVars, unitVars, rng, evalVars, contVars, rankVars, rec, err>>

\* The caller passes one candidate twice
Duplicate ==
    /\ pc = "generated"
    /\ candidates # <<>>
    /\ candidates' = Append(candidates, candidates[1])
    /\ pc' = "supplied"
    /\ UNCHANGED <<inputVars, unitVars, rng, evalVars, contVars, rankVars, rec, err>>

\* evaluate_strategies(candidates, ..., cfg, random_state)
EvaluateDirect ==
    /\ pc \in {"generated", "supplied"}
    /\ ReturnDirect(EvaluateStrategies(candidates, total_laps, env, cfg, random_state))
    /\ UNCHANGED <<inputVars, unitVars, candidates, eval_table_2, contVars, rankVars, rec>>

\* the same call once more, with the same arguments
EvaluateAgain ==
    /\ pc = "evaluated"
    /\ ReturnAgain(EvaluateStrategies(candidates, total_laps, env, cfg, random_state))
    /\ UNCHANGED <<inputVars, unitVars, candidates, eval_table, contVars, rankVars, rec>>

\* Faulty variant: the degradation mapping of the caller is scaled in place
ArgumentsAfterScaled(cands, p, c) ==
    [candidates |-> cands,
     env |-> [p EXCEPT !.degradation =
                  ScenarioDegradation(p.degradation, CONTINGENCY_SCENARIOS[2])],
     cfg |-> c]

\* The caller's objects after evaluate_strategies_with_contingencies, which
\* gets them by reference: the candidate list is only iterated, _scenario_cfg
\* builds a new SimulationConfig and _scenario_degradation a new dict
ArgumentsAfter(cands, p, c) == [candidates |-> cands, env |-> p, cfg |-> c]

\* The caller's table after ContingencyRanker.rank, which works on table.copy()
TableAfterRank(table) == table

\* evaluate_strategies_with_contingencies(candidates, ..., cfg, random_state)
Contingencies ==
    /\ pc \in {"evaluated_twice", "failed"}
    /\ ReturnContingencies(
           EvaluateStrategiesWithContingencies(candidates, total_laps, env, cfg,
                                               random_state))
    /\ LET after == ArgumentsAfter(candidates, env, cfg)
       IN  /\ candidates' = after.candidates
           /\ env' = after.env
           /\ cfg' = after.cfg
    /\ UNCHANGED <<total_laps, compounds, random_state, unitVars, evalVars, rankVars,
                   rec>>

\* ContingencyRanker(random_state).rank(contingency_table)
RankTable ==
    /\ pc = "contingency"
    /\ \E fit \in (-MaxFit)..MaxFit :
          ReturnRank(Rank(contingency_table, random_state, fit))
    /\ pc' = "ranked"
    /\ contingency_table' = TableAfterRank(contingency_table)
    /\ UNCHANGED <<inputVars, unitVars, rng, candidates, evalVars, eval_calls, tables,
                   merged, ranked_idx, rec, err>>

\* the selection of the primary strategy and the two fallbacks; on a table
\* without rows baseline_ranked.iloc[0] (line 243) raises IndexError
Select ==
    /\ pc = "ranked"
    /\ IF contingency_table = <<>>
       THEN /\ err' = "IndexError"
            /\ pc' = "rejected"
            /\ UNCHANGED rec
       ELSE /\ rec' = SelectEvent(contingency_table, ranked)
            /\ pc' = "done"
            /\ UNCHANGED err
    /\ UNCHANGED <<inputVars, unitVars, rng, candidates, evalVars, contVars, rankVars>>

\* the end of run_season_pipeline for a season of this one event
WriteReports ==
    /\ pc = "done"
    /\ LET written == ReportsWritten(<<rec>>)
       IN  /\ outputs' = written.files
           /\ err' = written.err
           /\ pc' = IF written.err = "" THEN "reported" ELSE "crashed"
    /\ UNCHANGED <<inputVars, trial, race, rng, candidates, evalVars, contVars,
                   rankVars, rec>>

Next ==
    \/ Generate
    \/ TakeFirst
    \/ Duplicate
    \/ EvaluateDirect
    \/ EvaluateAgain
    \/ Contingencies
    \/ RankTable
    \/ Select
    \/ WriteReports

Spec == Init /\ [][Next]_vars

NextGen == Generate

\* team race times and rival-noise values of direct _simulated_points calls: a
\* rival level with the team, one far ahead, one a standard deviation behind
TeamRaceTimes == {40000, 5400500}

RivalNoiseValues == {-32000, 0, 2800}

\* the state before a direct call of one helper function
InitUnit ==
    /\ total_laps = 1
    /\ compounds = <<>>
    /\ cfg = [n_simulations |-> 1] @@ DefaultSimulation
    /\ env = DryEvent
    /\ random_state = 0
    /\ InitRest

\* _simulated_points(team_race_time, rng), rng.normal returning any vector
Points ==
    /\ pc = "start"
    /\ \E t \in TeamRaceTimes, noise \in [DOMAIN RivalOffsets -> RivalNoiseValues] :
          trial' = PointsOfNoise(t, noise)
    /\ pc' = "scored"
    /\ UNCHANGED <<inputVars, race, outputs, rng, candidates, evalVars, contVars,
                   rankVars, rec, err>>

NextPoints == Points

\* events whose n_simulations runs over the range where the 20% rule, the floor
\* of 80 and the cap at n_simulations each decide the count
InitCalls ==
    /\ total_laps = MaxLaps
    /\ compounds = <<"SOFT", "HARD">>
    /\ \E ev \in CallerEvents, n \in 1..MaxTrials :
          /\ cfg = [n_simulations |-> n] @@ ev.cfg
          /\ env = ev.env
    /\ random_state = 0
    /\ InitRest

\* lines 110-125 of evaluate_strategies_with_contingencies: the arguments it
\* computes for the evaluator call of every scenario
ScenarioCalls ==
    /\ pc = "generated"
    /\ eval_calls' = [i \in DOMAIN CONTINGENCY_SCENARIOS |->
                         ScenarioCall(i, candidates, total_laps, env, cfg,
                                      random_state)]
    /\ pc' = "called"
    /\ UNCHANGED <<inputVars, unitVars, rng, candidates, evalVars, tables, merged,
                   ranked_idx, contingency_table, rankVars, rec, err>>

NextCalls ==
    \/ Generate
    \/ ScenarioCalls

SpecCalls == InitCalls /\ [][NextCalls]_vars

\* strategies whose rows are handed to _fallback_payload: no stop, one, two
PayloadStrategies ==
    {[name |-> "NO_STOP_SOFT", compounds |-> <<"SOFT">>, pit_laps |-> <<>>],
     [name |-> "ONE_STOP_SOFT_HARD_L2", compounds |-> <<"SOFT", "HARD">>,
      pit_laps |-> <<2>>],
     [name |-> "TWO_STOP_SOFT_HARD_SOFT_L1_3",
      compounds |-> <<"SOFT", "HARD", "SOFT">>, pit_laps |-> <<1, 3>>],
     [name |-> "TWO_STOP_MEDIUM_HARD_MEDIUM_L0_4",
      compounds |-> <<"MEDIUM", "HARD", "MEDIUM">>, pit_laps |-> <<0, 4>>]}

\* strategy scores of a row, in thousandths of a point
PayloadScores == {-500, 0, 700}

\* A row of a ranked table for a strategy: the identity columns as
\* evaluate_strategies writes them, the baseline score, and the strategy_score
\* columns of the disruption scenarios in `present`
PayloadRow(strategy, present, scores) ==
    [col \in {"strategy", "stops", "compounds", "pit_laps", "baseline_strategy_score"}
              \cup {k \o "_strategy_score" : k \in present} |->
        CASE col = "strategy" -> strategy.name
          [] col = "stops" -> Len(strategy.pit_laps)
          [] col = "compounds" -> Join(strategy.compounds, "->")
          [] col = "pit_laps" -> Join(StrAll(strategy.pit_laps), ",")
          [] col = "baseline_strategy_score" -> 900
          [] OTHER -> scores[CHOOSE k \in present : col = k \o "_strategy_score"]]

\* _fallback_payload(row, "fallback_2") on a row the caller built
Payload ==
    /\ pc = "start"
    /\ \E strategy \in PayloadStrategies, present \in SUBSET Range(DisruptionKeys),
          scores \in [Range(DisruptionKeys) -> PayloadScores] :
          /\ candidates' = <<strategy>>
          /\ ranked' = <<PayloadRow(strategy, present, scores)>>
          /\ rec' = FallbackPayload(PayloadRow(strategy, present, scores),
                                    "fallback_2")
    /\ pc' = "payload"
    /\ UNCHANGED <<inputVars, unitVars, rng, evalVars, contVars, metrics, no_model,
                   err>>

NextPayload == Payload

SpecPayload == InitUnit /\ [][NextPayload]_vars

SpecPoints == InitUnit /\ [][NextPoints]_vars

\* strategies handed to _compound_for_lap directly: any non-empty compound
\* sequence with any list of pit laps, of matching length or not
StintStrategies ==
    {[name |-> "DIRECT", compounds |-> cs, pit_laps |-> ps] :
        cs \in SeqsUpTo({"SOFT", "HARD"}, MaxCompounds) \ {<<>>},
        ps \in SeqsUpTo(0..MaxLaps, 2)}

\* _compound_for_lap(strategy, lap)
Stint ==
    /\ pc = "start"
    /\ \E strategy \in StintStrategies, lap \in (-1)..(MaxLaps + 1) :
          trial' = [strategy |-> strategy, lap |-> lap,
                    idx |-> StintIndex(strategy, lap),
                    compound |-> CompoundForLap(strategy, lap)]
    /\ pc' = "looked_up"
    /\ UNCHANGED <<inputVars, race, outputs, rng, candidates, evalVars, contVars,
                   rankVars, rec, err>>

NextStint == Stint

(***************************************************************************)
(* evaluate_strategies step by step: the candidate loop (line 140), the     *)
(* trials of a candidate lap by lap (lines 141-157, 92-111), then its       *)
(* points conversions (line 159), then its row (lines 160-182).  race holds *)
(* the position (k, i, lap), the locals, and a log of the finished trials   *)
(* and conversions with the generator states they started and ended on.    *)
(***************************************************************************)
\* a SimulationConfig a direct caller may pass: a pit stop that gains time
RefundSimulation ==
    [pit_loss_seconds |-> -50000, safety_car_probability |-> 500,
     weather_uncertainty_seconds |-> 900, traffic_uncertainty_seconds |-> 700]

\* the (SimulationConfig, event inputs) pairs of direct evaluator calls
DirectEvents == CallerEvents \cup {[cfg |-> RefundSimulation, env |-> WetEvent]}

InitTrials ==
    /\ total_laps \in (-3)..MaxLaps
    /\ compounds = <<"SOFT", "HARD">>
    /\ \E ev \in DirectEvents, n \in 1..MaxSims :
          /\ cfg = [n_simulations |-> n] @@ ev.cfg
          /\ env = ev.env
    /\ random_state \in 0..MaxSeed
    /\ InitRest

\* the call of _simulate_single_race for the next trial, on generator gen
NewTrial(r, gen) ==
    LET st == TrialStart(gen)
    IN  [r EXCEPT !.lap = 0, !.at = st, !.from = st.rng, !.stops = 0,
                  !.pit_total = 0, !.stints = <<>>, !.drawn = 0]

\* line 137 (rng = np.random.default_rng(random_state)), line 139 (rows = [])
\* and the entry into the candidate loop
Seed ==
    /\ pc = "generated"
    /\ rng' = DefaultRng(random_state)
    /\ race' = NewTrial([k |-> 1, i |-> 0, lap |-> 0, at |-> <<>>, from |-> 0,
                         stops |-> 0, pit_total |-> 0, stints |-> <<>>, drawn |-> 0,
                         samples |-> <<>>, points |-> <<>>, rows |-> <<>>,
                         log |-> <<>>, seeds |-> 1],
                        DefaultRng(random_state))
    /\ pc' = IF candidates = <<>> THEN "sort" ELSE "trials"
    /\ UNCHANGED <<inputVars, trial, outputs, candidates, evalVars, contVars,
                   rankVars, rec, err>>

\* one iteration of the lap loop of the trial in progress
Lap ==
    /\ pc = "trials"
    /\ race.lap < total_laps
    /\ LET after == LapLocals(race.at, candidates[race.k], race.lap + 1, total_laps,
                              env, cfg)
       IN  /\ race' = [race EXCEPT !.at = after,
                                   !.lap = @ + 1,
                                   !.stops = @ + (IF after.pitted THEN 1 ELSE 0),
                                   !.pit_total = @ + after.pit_loss,
                                   !.stints = Append(@, after.stint),
                                   !.drawn = @ + Len(after.draws)]
           /\ rng' = after.rng
    /\ UNCHANGED <<pc, inputVars, trial, outputs, candidates, evalVars, contVars,
                   rankVars, rec, err>>

\* line 113: the trial returns; its race time joins the samples of the candidate
EndTrial ==
    /\ pc = "trials"
    /\ race.lap >= total_laps
    /\ LET unit == [k |-> race.k, phase |-> "race", i |-> race.i + 1,
                    from |-> race.from, to |-> race.at.rng, drawn |-> race.drawn,
                    laps |-> race.lap, stops |-> race.stops,
                    pit_total |-> race.pit_total, value |-> race.at.race_time]
           done == [race EXCEPT !.samples = Append(@, race.at.race_time),
                                !.log = Append(@, unit)]
       IN  IF race.i + 1 < cfg.n_simulations
           THEN /\ race' = NewTrial([done EXCEPT !.i = @ + 1], race.at.rng)
                /\ pc' = "trials"
           ELSE /\ race' = [done EXCEPT !.i = 0]
                /\ pc' = "points"
    /\ rng' = race.at.rng
    /\ UNCHANGED <<inputVars, trial, outputs, candidates, evalVars, contVars,
                   rankVars, rec, err>>

\* line 159: _simulated_points of the next sample
PointsStep ==
    /\ pc = "points"
    /\ LET pt == SimulatedPoints(race.samples[race.i + 1], rng)
           unit == [k |-> race.k, phase |-> "points", i |-> race.i + 1,
                    from |-> rng, to |-> pt.rng, drawn |-> Len(RivalOffsets),
                    laps |-> 0, stops |-> 0, pit_total |-> 0, value |-> pt.value]
       IN  /\ race' = [race EXCEPT !.points = Append(@, pt.value),
                                   !.i = @ + 1,
                                   !.log = Append(@, unit)]
           /\ rng' = pt.rng
    /\ pc' = IF race.i + 1 < Len(race.samples) THEN "points" ELSE "row"
    /\ UNCHANGED <<inputVars, trial, outputs, candidates, evalVars, contVars,
                   rankVars, rec, err>>

\* lines 160-182: the row of the candidate, then the next candidate
EndCandidate ==
    /\ pc = "row"
    /\ LET row == CandidateRow(candidates[race.k], race.samples, race.points,
                               Percentile(race.samples, 10),
                               Percentile(race.samples, 90))
           done == [race EXCEPT !.rows = Append(@, row), !.i = 0]
       IN  IF race.k < Len(candidates)
           THEN /\ race' = NewTrial([done EXCEPT !.k = @ + 1, !.samples = <<>>,
                                                 !.points = <<>>], rng)
                /\ pc' = "trials"
           ELSE /\ race' = done
                /\ pc' = "sort"
    /\ UNCHANGED <<inputVars, trial, outputs, rng, candidates, evalVars, contVars,
                   rankVars, rec, err>>

\* lines 184-187: the frame of the rows, sorted
ReturnTable ==
    /\ pc = "sort"
    /\ ReturnDirect(SortEvaluated([rows |-> race.rows, rng |-> rng]))
    /\ UNCHANGED <<inputVars, unitVars, candidates, eval_table_2, contVars, rankVars,
                   rec>>

NextTrials ==
    \/ Generate
    \/ Seed
    \/ Lap
    \/ EndTrial
    \/ PointsStep
    \/ EndCandidate
    \/ ReturnTable

SpecTrials == InitTrials /\ [][NextTrials]_vars

SpecStint == InitUnit /\ [][NextStint]_vars

SpecGen == InitGen /\ [][NextGen]_vars

(***************************************************************************)
(* Properties                                                              *)
(***************************************************************************)
StrictlyIncreasing(xs) == \A i \in 1..(Len(xs) - 1) : xs[i] < xs[i + 1]

\* How often a value occurs in a sequence
Count(xs, x) == Cardinality({i \in DOMAIN xs : xs[i] = x})

\* The rows of a table are in the order score descending, time ascending
Ordered(rows, score_col, time_col) ==
    \A i \in 1..(Len(rows) - 1) :
        /\ rows[i][score_col] >= rows[i + 1][score_col]
        /\ rows[i][score_col] = rows[i + 1][score_col]
              => rows[i][time_col] <= rows[i + 1][time_col]

\* C2: for every positive total_laps every generated candidate has one compound
\* more than pit laps, strictly increasing pit laps, and every pit lap within
\* [1, total_laps - 1].
C2_PitLapsValid ==
    (pc = "generated" /\ total_laps >= 1) =>
        \A i \in DOMAIN candidates :
            /\ Len(candidates[i].compounds) = Len(candidates[i].pit_laps) + 1
            /\ StrictlyIncreasing(candidates[i].pit_laps)
            /\ \A k \in DOMAIN candidates[i].pit_laps :
                  candidates[i].pit_laps[k] \in 1..(total_laps - 1)

\* C3: the table evaluate_strategies returns is ordered by strategy_score
\* descending, ties by expected_race_time ascending, and has exactly one row per
\* candidate passed in.
C3_TableRanked ==
    eval_table # NoTable =>
        /\ Ordered(eval_table, "strategy_score", "expected_race_time")
        /\ Len(eval_table) = Len(candidates)
        /\ \A i \in DOMAIN candidates :
              Count([r \in DOMAIN eval_table |-> eval_table[r].strategy],
                    candidates[i].name)
                = Count([k \in DOMAIN candidates |-> candidates[k].name],
                        candidates[i].name)

\* C3 witness: a returned table in which a tie on the score is broken by the time
C3_Witness ==
    /\ eval_table # NoTable
    /\ \E i \in 1..(Len(eval_table) - 1) :
          /\ eval_table[i].strategy_score = eval_table[i + 1].strategy_score
          /\ eval_table[i].expected_race_time < eval_table[i + 1].expected_race_time
    /\ \E i \in 1..(Len(eval_table) - 1) :
          eval_table[i].strategy_score > eval_table[i + 1].strategy_score

C5_RowRanges ==
    /\ \A r \in DOMAIN eval_table :
          /\ eval_table[r].robustness_window >= 0
          /\ eval_table[r].robustness_window
                = eval_table[r].p90_time - eval_table[r].p10_time
          /\ eval_table[r].win_probability \in 0..1000
    /\ \A t \in DOMAIN tables : \A r \in DOMAIN tables[t] :
          /\ tables[t][r][ScenarioKeys[t] \o "_robustness_window"] >= 0
          /\ tables[t][r][ScenarioKeys[t] \o "_win_probability"] \in 0..1000

\* C5 witness: a row whose percentiles differ and whose trials are partly won
C5_Witness ==
    \E r \in DOMAIN eval_table :
        /\ cfg.n_simulations >= 2
        /\ eval_table[r].robustness_window > 0
        /\ eval_table[r].win_probability \in 1..999

NamesOf(rows) == {rows[i].strategy : i \in DOMAIN rows}

UniqueNames(rows) == Cardinality(NamesOf(rows)) = Len(rows)

\* C1: the primary is the row with the highest baseline_strategy_score (ties:
\* the lowest baseline_expected_race_time); fallback-2 and fallback-3 are the
\* first two rows in ranker order whose name is not the primary's; with three
\* distinct names in the table both are filled and the three names differ.
C1_Selection ==
    pc = "done" =>
        LET others == SelectSeq(ranked, LAMBDA r : r.strategy # rec.best_strategy)
        IN  /\ \E b \in DOMAIN contingency_table :
                  /\ contingency_table[b].strategy = rec.best_strategy
                  /\ \A r \in DOMAIN contingency_table :
                        \/ contingency_table[b].baseline_strategy_score
                              > contingency_table[r].baseline_strategy_score
                        \/ /\ contingency_table[b].baseline_strategy_score
                                = contingency_table[r].baseline_strategy_score
                           /\ contingency_table[b].baseline_expected_race_time
                                <= contingency_table[r].baseline_expected_race_time
            /\ rec.fallback_2_strategy
                  = IF Len(others) >= 1 THEN others[1].strategy ELSE ""
            /\ rec.fallback_3_strategy
                  = IF Len(others) >= 2 THEN others[2].strategy ELSE ""
            /\ Cardinality(NamesOf(contingency_table)) >= 3 =>
                  /\ rec.fallback_2_strategy # ""
                  /\ rec.fallback_3_strategy # ""
                  /\ Cardinality({rec.best_strategy, rec.fallback_2_strategy,
                                  rec.fallback_3_strategy}) = 3

\* C1 witness: a selection made where the ranker put the primary first, so that
\* the fallbacks are the ranker's second and third rows
C1_Witness ==
    /\ pc = "done"
    /\ Len(ranked) >= 3
    /\ ranked[1].strategy = rec.best_strategy
    /\ rec.fallback_2_strategy = ranked[2].strategy
    /\ rec.fallback_3_strategy = ranked[3].strategy

\* C6: every top3_scenario_hits is in 0..5; each of the five scenarios gives its
\* hit to exactly min(3, row_count) rows, rows of the highest score of that
\* scenario; after the final sort every row still carries the hits it received.
C6_Top3Hits ==
    (pc \in {"contingency", "ranked", "done"}) =>
        LET n == Len(merged)
        IN  /\ Len(ranked_idx) = Len(ScenarioKeys)
            /\ \A s \in DOMAIN ranked_idx :
                  /\ ranked_idx[s] \subseteq 1..n
                  /\ Cardinality(ranked_idx[s]) = Min(3, n)
                  /\ \A i \in ranked_idx[s] : \A j \in (1..n) \ ranked_idx[s] :
                        merged[i][ScenarioKeys[s] \o "_strategy_score"]
                            >= merged[j][ScenarioKeys[s] \o "_strategy_score"]
            /\ \A r \in 1..n :
                  /\ merged[r].top3_scenario_hits
                        = Cardinality({s \in DOMAIN ranked_idx : r \in ranked_idx[s]})
                  /\ merged[r].top3_scenario_hits \in 0..5
            /\ Len(contingency_table) = n
            /\ \A r \in 1..n :
                  /\ contingency_table[r].top3_scenario_hits \in 0..5
                  /\ Count(contingency_table, merged[r]) = Count(merged, merged[r])

\* C6 witness: a table of more than three rows, one of them in the top 3 of some
\* scenarios but not of all, another one in the top 3 of none
C6_Witness ==
    /\ pc = "contingency"
    /\ Len(contingency_table) >= 4
    /\ \E r \in DOMAIN contingency_table :
          contingency_table[r].top3_scenario_hits \in 1..4
    /\ \E r \in DOMAIN contingency_table :
          contingency_table[r].top3_scenario_hits = 0

\* _target written out on the columns of a row
C7_RawTarget(row) ==
    (row.weather_change_strategy_score + row.engine_conservation_strategy_score
        + row.driver_error_recovery_strategy_score + row.race_chaos_strategy_score)
            \div 4
    + (2 * ((row.weather_change_win_probability
               + row.engine_conservation_win_probability
               + row.driver_error_recovery_win_probability
               + row.race_chaos_win_probability) \div 4)) \div 10
    + 60 * row.top3_scenario_hits
    - ((row.weather_change_robustness_window
          + row.engine_conservation_robustness_window
          + row.driver_error_recovery_robustness_window
          + row.race_chaos_robustness_window) \div 4) \div 100

\* C7: rank fits no model exactly when the table has fewer than 12 rows after
\* de-duplication by strategy name; then every contingency_rank_score is the raw
\* composite target of its row and metrics.mae is 0.
C7_NoModelPath ==
    (pc \in {"ranked", "done"}) =>
        /\ no_model <=> Cardinality(NamesOf(contingency_table)) < 12
        /\ no_model =>
              /\ metrics.mae = 0
              /\ \A r \in DOMAIN ranked :
                    ranked[r].contingency_rank_score = C7_RawTarget(ranked[r])

\* C7 witness: a table of 12 rows or more that de-duplicates to fewer than 12
\* and is ranked without a model
C7_Witness ==
    /\ pc = "ranked"
    /\ no_model
    /\ Len(contingency_table) >= 12
    /\ Len(ranked) \in 3..11

\* C8: for a table with unique strategy names rank returns as many rows, the
\* same set of names, a contingency_rank_score on every row, and mae >= 0.
C8_RankKeepsRows ==
    (pc \in {"ranked", "done"} /\ UniqueNames(contingency_table)) =>
        /\ Len(ranked) = Len(contingency_table)
        /\ NamesOf(ranked) = NamesOf(contingency_table)
        /\ \A r \in DOMAIN ranked : "contingency_rank_score" \in DOMAIN ranked[r]
        /\ metrics.mae >= 0

\* C8 witness: a table with unique names ranked by a fitted model whose held-out
\* error is positive
C8_Witness ==
    /\ pc = "ranked"
    /\ UniqueNames(contingency_table)
    /\ ~no_model
    /\ metrics.mae > 0

ScenarioCols(key) ==
    {key \o "_expected_race_time", key \o "_win_probability",
     key \o "_strategy_score", key \o "_robustness_window"}

AllScenarioCols == UNION {ScenarioCols(ScenarioKeys[i]) : i \in DOMAIN ScenarioKeys}

CandidateNames == [k \in DOMAIN candidates |-> candidates[k].name]

\* C9 as stated: for every candidate list the merged table has exactly one row
\* per candidate strategy name, each row with the columns of all five scenarios.
C9_OneRowPerNameAnyList ==
    pc = "contingency" =>
        /\ Len(contingency_table) = Cardinality(Range(CandidateNames))
        /\ \A r \in DOMAIN contingency_table :
              AllScenarioCols \subseteq DOMAIN contingency_table[r]

\* C9 amended: for every non-empty candidate list whose names are pairwise
\* distinct the merged table has exactly one row per candidate, each row with
\* the columns of all five scenarios.
C9_OneRowPerName ==
    (pc = "contingency" /\ Cardinality(Range(CandidateNames)) = Len(candidates)) =>
        /\ Len(contingency_table) = Len(candidates)
        /\ \A k \in DOMAIN candidates :
              Count([r \in DOMAIN contingency_table |-> contingency_table[r].strategy],
                    candidates[k].name) = 1
        /\ \A r \in DOMAIN contingency_table :
              AllScenarioCols \subseteq DOMAIN contingency_table[r]

\* C9 witness: the table of a generated list of ten candidates or more
C9_Witness ==
    /\ pc = "contingency"
    /\ Cardinality(Range(CandidateNames)) = Len(candidates)
    /\ Len(contingency_table) >= 10

\* C10: the evaluator call of the baseline scenario receives exactly the
\* caller's inputs, so the baseline columns are those of a direct call.
C10_BaselineUnperturbed ==
    pc = "contingency" =>
        /\ eval_calls[1] = [candidates |-> candidates, total_laps |-> total_laps,
                            env |-> env, cfg |-> cfg, random_state |-> random_state]
        /\ \A r \in DOMAIN contingency_table :
              \E d \in DOMAIN eval_table :
                  /\ eval_table[d].strategy = contingency_table[r].strategy
                  /\ eval_table[d].strategy_score
                        = contingency_table[r].baseline_strategy_score
                  /\ eval_table[d].expected_race_time
                        = contingency_table[r].baseline_expected_race_time
                  /\ eval_table[d].win_probability
                        = contingency_table[r].baseline_win_probability
                  /\ eval_table[d].robustness_window
                        = contingency_table[r].baseline_robustness_window

\* C11: generate_candidate_strategies called with an empty compound list returns
\* no candidate.
C11_EmptyCompounds ==
    (pc = "generated" /\ compounds = <<>>) => candidates = <<>>

Plan(c) == [compounds |-> c.compounds, pit_laps |-> c.pit_laps]

PlansOf(cands) == {Plan(cands[i]) : i \in DOMAIN cands}

\* The reference set of plans for a race distance and a compound list
ReferencePlans(laps, comps) ==
    LET usable == {Upper(comps[i]) : i \in DOMAIN comps}
        pairs == {q \in usable \X usable : q[1] # q[2]}
        triples == {q \in usable \X usable \X usable :
                       ~(q[1] = q[2] /\ q[2] = q[3])}
        one_stop == {[compounds |-> <<q[1], q[2]>>,
                      pit_laps |-> <<(laps * f) \div 100>>] :
                        q \in pairs, f \in {38, 50, 62}}
        two_stop == {[compounds |-> <<q[1], q[2], q[3]>>,
                      pit_laps |-> <<(laps * 32) \div 100, (laps * 67) \div 100>>] :
                        q \in triples}
    IN  one_stop \cup two_stop

\* C14: for every total_laps >= 1 and every compound list the plans returned are
\* exactly the reference set: every ordered pair of distinct compounds at the
\* three pit fractions, every ordered triple that is not one compound thrice.
C14_ReferenceSet ==
    (pc = "generated" /\ total_laps >= 1) =>
        PlansOf(candidates) = ReferencePlans(total_laps, compounds)

OneStops(cands) == {i \in DOMAIN cands : Len(cands[i].pit_laps) = 1}

TwoStops(cands) == {i \in DOMAIN cands : Len(cands[i].pit_laps) = 2}

AtReferenceRace ==
    /\ pc = "generated"
    /\ total_laps = default_total_laps
    /\ compounds = DefaultCompounds

\* C15 as stated: at 58 laps with SOFT, MEDIUM, HARD there are 36 one-stop
\* candidates and some two-stop candidates.
C15_ThirtySixOneStops ==
    AtReferenceRace =>
        /\ Cardinality(OneStops(candidates)) = 36
        /\ TwoStops(candidates) # {}

\* C15 amended: at 58 laps with SOFT, MEDIUM, HARD there are 18 one-stop
\* candidates (6 ordered pairs, 3 pit laps each), 24 two-stop candidates, and no
\* two candidates share a name.
C15_EighteenOneStops ==
    AtReferenceRace =>
        /\ Cardinality(OneStops(candidates)) = 18
        /\ Cardinality(TwoStops(candidates)) = 24
        /\ Cardinality({candidates[i].name : i \in DOMAIN candidates})
              = Len(candidates)
        /\ Len(EnumeratedOptions(total_laps, compounds)) = Len(candidates)

\* C15 witness: the candidate list of the reference race
C15_Witness ==
    /\ AtReferenceRace
    /\ Len(candidates) = 42
    /\ \E i \in DOMAIN candidates : candidates[i].pit_laps = <<22>>

\* C16: two enumerated plans get the same name only if they are the same plan,
\* so the de-duplication loses no plan and the output names are distinct.
C16_NameIdentifiesPlan ==
    pc = "generated" =>
        LET out == EnumeratedOptions(total_laps, compounds)
        IN  /\ \A i \in DOMAIN out : \A j \in DOMAIN out :
                  out[i].name = out[j].name => Plan(out[i]) = Plan(out[j])
            /\ PlansOf(candidates) = PlansOf(out)
            /\ Cardinality({candidates[i].name : i \in DOMAIN candidates})
                  = Len(candidates)

\* C12: evaluate_strategies called with an empty candidate list returns a table
\* of zero rows and raises no error.
C12_EmptyTableReturned ==
    (candidates = <<>> /\ pc \in {"evaluated", "failed"}) =>
        /\ pc = "evaluated"
        /\ err = ""
        /\ eval_table = <<>>

\* C13: an empty contingency table is never accepted: with an empty candidate
\* list the caller of evaluate_strategies_with_contingencies gets an error, the
\* selection is never made on a table without rows, and no recommendation
\* record is produced.
C13_EmptyTableRejected ==
    /\ (candidates = <<>> /\ eval_calls # <<>>) =>
          /\ pc = "rejected"
          /\ err # ""
          /\ rec = <<>>
    /\ pc \in {"contingency", "ranked", "done"} => contingency_table # <<>>
    /\ rec # <<>> => contingency_table # <<>>

\* C13 witness: the contingency evaluation of an event whose compound list
\* gives no candidate ended with an error and left no record
C13_Witness ==
    /\ pc = "rejected"
    /\ candidates = <<>>
    /\ eval_calls # <<>>
    /\ err = "KeyError"
    /\ rec = <<>>

\* C17: _simulated_points builds 9 rival times; the position is 1 + the number
\* of rival times strictly below the team's, always within 1..10; the result is
\* the points of that position (25,18,15,12,10,8,6,4,2,1); the trial is a win
\* (points >= 25) exactly when no rival time is below the team's.
C17_PointsOfPosition ==
    pc = "scored" =>
        LET ahead == {i \in DOMAIN trial.rival_times :
                         trial.rival_times[i] < trial.team_race_time}
        IN  /\ Len(trial.rival_times) = 9
            /\ trial.position = 1 + Cardinality(ahead)
            /\ trial.position \in 1..10
            /\ trial.points
                  = <<25, 18, 15, 12, 10, 8, 6, 4, 2, 1>>[trial.position]
            /\ trial.points >= 25 <=> ahead = {}

\* C17 witness: a trial with a rival level with the team and four rivals ahead,
\* fifth place, 10 points
C17_Witness ==
    /\ pc = "scored"
    /\ trial.position = 5
    /\ trial.points = 10
    /\ \E i \in DOMAIN trial.rival_times :
          trial.rival_times[i] = trial.team_race_time

\* C18: for every n_simulations = n >= 1 the baseline scenario is evaluated with
\* n trials and each other scenario with min(n, max(80, floor(0.2 n))) trials,
\* a count never above n and never below min(n, 80).
C18_TrialCounts ==
    pc = "called" =>
        LET n == cfg.n_simulations
        IN  /\ Len(eval_calls) = 5
            /\ eval_calls[1].cfg.n_simulations = n
            /\ \A i \in 2..5 :
                  /\ eval_calls[i].cfg.n_simulations = Min(n, Max(80, n \div 5))
                  /\ eval_calls[i].cfg.n_simulations <= n
                  /\ eval_calls[i].cfg.n_simulations >= Min(n, 80)

\* C18 witness: an event with so many trials that the disruption scenarios run
\* 20% of them, more than 80 and fewer than n
C18_Witness ==
    /\ pc = "called"
    /\ eval_calls[1].cfg.n_simulations = cfg.n_simulations
    /\ eval_calls[5].cfg.n_simulations > 80
    /\ eval_calls[5].cfg.n_simulations < cfg.n_simulations

\* Scenario a scores at least as high as scenario b in a row, a missing column
\* counting as minus infinity
C19_AtLeast(row, a, b) ==
    \/ (b \o "_strategy_score") \notin DOMAIN row
    \/ /\ (a \o "_strategy_score") \in DOMAIN row
       /\ row[a \o "_strategy_score"] >= row[b \o "_strategy_score"]

\* C19: the trigger of a fallback record names the disruption scenario with the
\* highest strategy_score in the fallback's row, the earliest of them on a tie,
\* a missing column counting as minus infinity; baseline is never named.
C19_TriggerNamesBest ==
    pc = "payload" =>
        LET row == ranked[1]
            keys == <<"weather_change", "engine_conservation",
                      "driver_error_recovery", "race_chaos">>
            reasons == <<"Weather change or sudden rain", "Engine reliability concern",
                         "Driver error recovery", "Safety car or race chaos">>
        IN  \E i \in 1..4 :
                /\ rec.fallback_2_trigger = reasons[i]
                /\ \A j \in 1..4 : C19_AtLeast(row, keys[i], keys[j])
                /\ \A j \in 1..(i - 1) : ~C19_AtLeast(row, keys[j], keys[i])

\* C19 witness: a row without the weather_change column whose two best
\* disruption scores are equal, lower than its baseline score; the earlier of
\* the two is named
C19_Witness ==
    /\ pc = "payload"
    /\ "weather_change_strategy_score" \notin DOMAIN ranked[1]
    /\ "engine_conservation_strategy_score" \in DOMAIN ranked[1]
    /\ "race_chaos_strategy_score" \in DOMAIN ranked[1]
    /\ "driver_error_recovery_strategy_score" \in DOMAIN ranked[1]
    /\ ranked[1].engine_conservation_strategy_score = 0
    /\ ranked[1].driver_error_recovery_strategy_score = 700
    /\ ranked[1].race_chaos_strategy_score = 700
    /\ ranked[1].baseline_strategy_score > 700
    /\ rec.fallback_2_trigger = "Driver error recovery"

\* "; Pit on lap Li -> ci" for the pit laps i..k of a strategy
RECURSIVE C20_Steps(_, _)
C20_Steps(strategy, i) ==
    IF i > Len(strategy.pit_laps) THEN ""
    ELSE "; Pit on lap " \o ToString(strategy.pit_laps[i]) \o " -> "
            \o strategy.compounds[i + 1] \o C20_Steps(strategy, i + 1)

\* C20: for a strategy with compounds c0..ck and pit laps L1..Lk the plan text
\* is "Start on c0" followed by "; Pit on lap Li -> ci" for every pit lap in
\* order; with no pit lap it is "Start on c0 and run full race (0 planned stops)".
C20_PlanText ==
    pc = "payload" =>
        LET strategy == candidates[1]
        IN  rec.fallback_2_plan
              = IF strategy.pit_laps = <<>>
                THEN "Start on " \o strategy.compounds[1]
                        \o " and run full race (0 planned stops)"
                ELSE "Start on " \o strategy.compounds[1] \o C20_Steps(strategy, 1)

\* C20 witness: the plan of a two-stop strategy
C20_Witness ==
    /\ pc = "payload"
    /\ candidates[1].pit_laps = <<1, 3>>
    /\ rec.fallback_2_plan = "Start on SOFT; Pit on lap 1 -> HARD; Pit on lap 3 -> SOFT"


\* C21: the stint lookup never fails: for a strategy with a non-empty compound
\* sequence and any lap, the index it reads is min(number of pit laps strictly
\* below the lap, len(compounds) - 1), a valid index, and the compound returned
\* is the one at that index; without pit laps it is compounds[0] at every lap.
C21_StintLookup ==
    pc = "looked_up" =>
        LET strategy == trial.strategy
            below == Cardinality({i \in DOMAIN strategy.pit_laps :
                                     strategy.pit_laps[i] < trial.lap})
        IN  /\ trial.idx = Min(below, Len(strategy.compounds) - 1)
            /\ trial.idx \in 0..(Len(strategy.compounds) - 1)
            /\ trial.compound = strategy.compounds[trial.idx + 1]
            /\ strategy.pit_laps = <<>> => trial.compound = strategy.compounds[1]

\* a lookup past both pit laps of a strategy with two compounds only: the cap decides
C21_Witness ==
    /\ pc = "looked_up"
    /\ trial.strategy.compounds = <<"SOFT", "HARD">>
    /\ trial.strategy.pit_laps = <<1, 3>>
    /\ trial.lap = 5
    /\ trial.compound = "HARD"

\* The call run step by step returns what the call run at once returns
StepsAgree ==
    pc = "evaluated" =>
        LET r == EvaluateStrategies(candidates, total_laps, env, cfg, random_state)
        IN  eval_table = r.table /\ rng = r.rng /\ err = r.err

\* the evaluator call has been entered
Entered == pc \in {"trials", "points", "row", "sort", "evaluated", "failed"}

\* the finished trials of the log
TrialsLogged == {j \in DOMAIN race.log : race.log[j].phase = "race"}

\* C22: a non-positive total_laps raises nothing: the generator returns a
\* degenerate candidate set (no pit lap inside a race), and the evaluator call
\* over it completes with a row per candidate, every trial running zero laps,
\* charging no pit loss and returning race time 0.
C22_NonPositiveLaps ==
    total_laps <= 0 =>
        /\ err = ""
        /\ pc # "failed"
        /\ pc # "start" =>
              /\ candidates # <<>>
              /\ \A k \in DOMAIN candidates :
                    \A j \in DOMAIN candidates[k].pit_laps :
                        candidates[k].pit_laps[j] <= 0
        /\ Entered =>
              /\ race.lap = 0
              /\ race.at.race_time = 0
              /\ \A j \in TrialsLogged :
                    /\ race.log[j].laps = 0
                    /\ race.log[j].stops = 0
                    /\ race.log[j].pit_total = 0
                    /\ race.log[j].value = 0
        /\ pc = "evaluated" =>
              /\ Len(eval_table) = Len(candidates)
              /\ \A r \in DOMAIN eval_table :
                    /\ eval_table[r].expected_race_time = 0
                    /\ eval_table[r].p10_time = 0
                    /\ eval_table[r].p90_time = 0

\* a call with total_laps = 0 that returned a table after running its trials
C22_Witness ==
    /\ total_laps = 0
    /\ pc = "evaluated"
    /\ eval_table # <<>>
    /\ Cardinality(TrialsLogged) = Len(candidates) * cfg.n_simulations

\* C23: whenever the pipeline has made a record for an event it runs to
\* completion and writes both the strategy-recommendations file and the
\* championship-projection file; the record holds fallback_2_strategy,
\* fallback_3_strategy, strategy_plan and start_compound and no expected_points,
\* and every field the championship projection reads is present.
C23_ReportsWritten ==
    pc \in {"reported", "crashed"} =>
        /\ err = ""
        /\ pc = "reported"
        /\ {"strategy_recommendations", "championship_projection"} \subseteq outputs
        /\ {"fallback_2_strategy", "fallback_3_strategy", "strategy_plan",
            "start_compound"} \subseteq DOMAIN rec
        /\ "expected_points" \notin DOMAIN rec
        /\ ProjectChampionship(<<rec>>).err = ""

\* the generator state n draws after s
RECURSIVE Advanced(_, _)
Advanced(s, n) == IF n = 0 THEN s ELSE RngAdvance(Advanced(s, n - 1))

\* the kinds of the draws of one lap, in order
DrawKinds(draws) == [d \in DOMAIN draws |-> draws[d].kind]

\* the unit of work the claim puts at position j of a call with n trials per
\* candidate: all trials of a candidate, then its points conversions
UnitAt(j, n) ==
    [k |-> ((j - 1) \div (2 * n)) + 1,
     phase |-> IF (j - 1) % (2 * n) < n THEN "race" ELSE "points",
     i |-> (((j - 1) % (2 * n)) % n) + 1]

\* C24: within one evaluate_strategies call a single generator, created from
\* random_state, is drawn from and never reseeded.  The draws are consumed in
\* candidate order: for candidate k all n_simulations trials (per lap the pit
\* draws if it is a pit lap, then traffic, weather, noise), then the
\* n_simulations points conversions, then candidate k + 1; every trial and
\* conversion starts on the generator state the previous one left.
C24_DrawOrder ==
    (Entered /\ candidates # <<>>) =>
        /\ \A j \in DOMAIN race.log :
              /\ race.log[j].k = UnitAt(j, cfg.n_simulations).k
              /\ race.log[j].phase = UnitAt(j, cfg.n_simulations).phase
              /\ race.log[j].i = UnitAt(j, cfg.n_simulations).i
              /\ race.log[j].from = IF j = 1 THEN DefaultRng(random_state)
                                    ELSE race.log[j - 1].to
              /\ race.log[j].to = Advanced(race.log[j].from, race.log[j].drawn)
              /\ race.log[j].phase = "points" => race.log[j].drawn = Len(RivalOffsets)
        /\ pc = "trials" =>
              /\ race.from = IF race.log = <<>> THEN DefaultRng(random_state)
                             ELSE race.log[Len(race.log)].to
              /\ rng = Advanced(race.from, race.drawn)
              /\ race.lap >= 1 =>
                    /\ DrawKinds(race.at.draws)
                          \in IF race.at.pitted
                              THEN {<<"safety_car", "traffic", "weather", "noise">>,
                                    <<"safety_car", "pit_factor", "traffic", "weather",
                                      "noise">>}
                              ELSE {<<"traffic", "weather", "noise">>}
                    /\ \A d \in 1..(Len(race.at.draws) - 1) :
                          race.at.draws[d + 1].from = RngAdvance(race.at.draws[d].from)
                    /\ rng = RngAdvance(race.at.draws[Len(race.at.draws)].from)
        /\ pc \in {"points", "row", "sort"} =>
              rng = IF race.log = <<>> THEN DefaultRng(random_state)
                    ELSE race.log[Len(race.log)].to

\* the second trial of the second candidate, on a pit lap under the safety car,
\* after both trials and both conversions of the first candidate
C24_Witness ==
    /\ pc = "trials"
    /\ cfg.n_simulations = 2
    /\ race.k = 2
    /\ race.i = 1
    /\ race.lap >= 1
    /\ Len(race.at.draws) = 5
    /\ Len(race.log) = 5

\* len(strategy.pit_laps): the stops the plan of a candidate holds
PlannedStops(strategy) == Len(strategy.pit_laps)

\* C25: for every candidate the generator returns for a total_laps >= 1, a trial
\* makes exactly len(pit_laps) pit stops: at the end of the trial the number of
\* laps on which pit loss was added and the stint age reset equals the number
\* of planned pit laps, and a lap pits exactly when it is a planned pit lap.
C25_StopsAsPlanned ==
    (pc = "trials" /\ total_laps >= 1) =>
        /\ race.lap >= 1 =>
              (race.at.pitted <=> race.lap \in Range(candidates[race.k].pit_laps))
        /\ race.lap = total_laps =>
              race.stops = PlannedStops(candidates[race.k])

\* the laps of the trial in progress run before the latest one on the compound
\* the lookup gave for the latest one
LapsOnActiveCompound ==
    Cardinality({j \in 1..(race.lap - 1) : race.stints[j] = race.stints[race.lap]})

\* the pit stops the trial in progress has made: the planned pit laps it has run
StopsMade(strategy) == {q \in Range(strategy.pit_laps) : 1 <= q /\ q <= race.lap}

\* the laps run since the latest pit stop made, since the start when none was
LapsSinceStop(strategy) ==
    IF StopsMade(strategy) = {} THEN race.lap - 1
    ELSE race.lap - (CHOOSE q \in StopsMade(strategy) :
                        \A o \in StopsMade(strategy) : o <= q)

C27_LapFloor ==
    (pc = "trials" /\ race.lap >= 1) =>
        /\ race.at.race_time - race.at.before - race.at.pit_loss >= 40000
        /\ race.at.race_time >= 40000 * race.lap + race.pit_total
        /\ cfg.pit_loss_seconds >= 0 =>
              /\ race.at.race_time >= race.at.before
              /\ race.pit_total >= 0
              /\ race.lap = total_laps => race.at.race_time >= 40000 * total_laps

\* a lap whose computed lap time was below the floor, in a trial that has made
\* a pit stop
C27_Witness ==
    /\ pc = "trials"
    /\ race.lap >= 1
    /\ race.at.lap_time < 40000
    /\ race.at.race_time - race.at.before - race.at.pit_loss = 40000
    /\ race.stops >= 1
    /\ race.pit_total > 0

\* the compounds the candidates of the event run on
CompoundsUsed ==
    UNION {Range(candidates[k].compounds) : k \in DOMAIN candidates}

\* C28: in the weather_change scenario the degradation rate applied to each
\* compound a candidate can use is 1.15 times the rate applied at baseline, a
\* compound without an entry in the caller's degradation mapping included.
C28_WeatherRate ==
    pc = "called" =>
        \A compound \in CompoundsUsed :
            DegradationGet(eval_calls[2].env.degradation, compound)
                = (DegradationGet(eval_calls[1].env.degradation, compound) * 1150)
                      \div 1000

\* C29: the points of a trial do not depend on its race time: for one and the
\* same vector of rival-noise draws, _simulated_points returns the same position
\* and points for any two team race times, so what a candidate scores is decided
\* by the rival-noise draws alone.
C29_PointsIgnoreTime ==
    pc = "scored" =>
        \A other \in TeamRaceTimes :
            /\ PointsOfNoise(other, trial.rival_noise).position = trial.position
            /\ PointsOfNoise(other, trial.rival_noise).points = trial.points
            /\ trial.position
                  = 1 + Cardinality({i \in DOMAIN RivalOffsets :
                                        RivalOffsets[i] + trial.rival_noise[i] < 0})

\* a slow trial (5400.5 s) that scores the 15 points of third place, as the
\* fastest possible trial (40 s) does on the same draws
C29_Witness ==
    /\ pc = "scored"
    /\ trial.team_race_time = 5400500
    /\ trial.points = 15
    /\ PointsOfNoise(40000, trial.rival_noise).points = 15

\* a step of evaluate_strategies_with_contingencies, a step of rank
ContingenciesStep == pc \in {"evaluated_twice", "failed"} /\ pc' \in {"contingency", "rejected"}

RankStep == pc = "contingency" /\ pc' = "ranked"

====
